---- MODULE Spec2Model ----
(***************************************************************************)
(* First Mile Monitor (src/fmlm.py): a Streamlit script that is re-executed *)
(* top to bottom on every user interaction.  One execution fetches the     *)
(* orders and the scan events (both memoized by st.cache_data), left-merges *)
(* scans to orders, normalises every merged row, derives pick_status,      *)
(* shows two metrics, applies the four multiselect filters, renders the    *)
(* table, evaluates the "Reload data" button and writes the export.        *)
(*                                                                         *)
(* Cells of a data frame are tagged records, so that a null, a string, a   *)
(* number and a float are different values:                                *)
(*   Null, Str("B1"), Num(0), Float(150), Chars(<<"1", ".", "5">>)         *)
(* Chars is a Python str kept character by character (lat, lon and         *)
(* external_id, the strings the code parses or searches).  A Float holds   *)
(* hundredths.                                                             *)
(***************************************************************************)
EXTENDS Integers, Sequences, FiniteSets, TLC

VARIABLES
    ordersDb,           \* rows of the Postgres table `orders`
    scansDb,            \* rows of the BigQuery table scan_events_raw_latest
    cacheOrders,        \* st.cache_data entry of get_historical_orders(query)
    cacheScans,         \* st.cache_data entries of get_scan_frame, by date_limit
    date_limit,         \* value of the st.date_input widget
    reloadPressed,      \* st.button("Reload data") returns True in this run
    pc,                 \* position of the running script
    proxy_orders,       \* line 108
    proxy_frame,        \* lines 124-127
    query_date_filter,  \* lines 75-86, of the last get_scan_frame body executed
    scan_frame,         \* line 146
    merged_frame,       \* lines 148-153, then 173-183
    couriers,           \* line 156
    clients,            \* line 159
    tariffs,            \* line 162
    filtered_statuses,  \* line 165
    scan_events,        \* line 168
    scan_errors,        \* line 171
    visible_frame,      \* line 185
    report_file,        \* FILE_BUFFER_REPORT, lines 199-201
    ordersQueried,      \* this run executed the body of get_historical_orders
    scansQueried,       \* this run executed the body of get_scan_frame
    prevRunReloaded     \* the previous run reached line 197

vars == <<ordersDb, scansDb, cacheOrders, cacheScans, date_limit, reloadPressed,
          pc, proxy_orders, proxy_frame, query_date_filter, scan_frame,
          merged_frame, couriers, clients, tariffs, filtered_statuses,
          scan_events, scan_errors, visible_frame, report_file,
          ordersQueried, scansQueried, prevRunReloaded>>

----------------------------------------------------------------------------
(* Cells *)

Null == [null |-> TRUE]
Str(s) == [str |-> s]
Num(n) == [num |-> n]
Float(n) == [float |-> n]
Chars(s) == [chars |-> s]

\* pandas.isna
isna(x) == x = Null

\* Python truthiness of None, a date (always true) or a tuple
Truthy(x) == IF x = Null THEN FALSE
             ELSE IF "items" \in DOMAIN x THEN Len(x.items) > 0
             ELSE TRUE

RECURSIVE SeqMap(_, _)
SeqMap(Op(_), s) == IF s = <<>> THEN <<>> ELSE <<Op(Head(s))>> \o SeqMap(Op, Tail(s))

RECURSIVE Concat(_)
Concat(ss) == IF ss = <<>> THEN <<>> ELSE Head(ss) \o Concat(Tail(ss))

\* Series.unique(): the distinct values of a column
Unique(frame, col) == {frame[i][col] : i \in 1..Len(frame)}

\* frame[frame[col].isin(values)]
IsIn(frame, col, values) == SelectSeq(frame, LAMBDA row : row[col] \in values)

----------------------------------------------------------------------------
(* Order source: lines 27-31 and 108-127 *)

\* WHERE is_redelivery = FALSE AND created_at BETWEEN '2023-08-01' AND '2023-08-31'
OrdersWhere(o) == o.is_redelivery = FALSE /\ o.created_at >= 20230801 /\ o.created_at <= 20230831

\* the SELECT list of lines 109-119: one tuple per row, in column order
OrdersSelect(o) == <<o.client_order_number, o.routing_order_number, o.market_order_id,
                     o.request_id, o.claim_id, o.tariff, o.logistic_status,
                     o.claim_status, Num(o.created_at), o.client_id>>

\* cursor.execute(query); cursor.fetchall()
FetchAll(db) == SeqMap(OrdersSelect, SelectSeq(db, OrdersWhere))

\* pandas.DataFrame(proxy_orders, columns=[...]): the tuples get the frame's column names
ProxyRow(t) == [barcode |-> t[1], external_id |-> t[2], lo_code |-> t[3],
                request_id |-> t[4], claim_id |-> t[5], tariff |-> t[6],
                platform_status |-> t[7], cargo_status |-> t[8], created_at |-> t[9],
                proxy_client_id |-> t[10]]

RETRY_MARKER == <<"_", "R", "E", "T", "R", "Y", "_">>

\* Series.str.contains(pat) for a pattern without regex metacharacters: substring search
StrContains(s, pat) == \E i \in 1..(Len(s) - Len(pat) + 1) : SubSeq(s, i, i + Len(pat) - 1) = pat

IsRedeliveryId(external_id) == StrContains(external_id.chars, RETRY_MARKER)

\* DropRetries without the filter of line 127
DropRetries_KeepAll(frame) == frame

\* proxy_frame[~proxy_frame.external_id.str.contains("_RETRY_")]
DropRetries(frame) == SelectSeq(frame, LAMBDA row : ~IsRedeliveryId(row.external_id))

BuildProxyFrame(tuples) == DropRetries(SeqMap(ProxyRow, tuples))

----------------------------------------------------------------------------
(* Scan source: lines 72-102 *)

NoFilter == [kind |-> "none"]
Between(a, b) == [kind |-> "between", date_from |-> a, date_to |-> b]
AtLeast(a) == [kind |-> "ge", date_from |-> a]

\* lines 75-86.  `date_from, date_to = date_limit` raises unless the tuple has
\* exactly two items, and the bare except then takes date_limit[0].
\* UnpackOk of `date_from, date_to = date_limit[:2]`
UnpackOk_AtLeastTwo(dl) == Len(dl.items) >= 2
UnpackOk(dl) == Len(dl.items) = 2
DateFrom(dl) == dl.items[1]
DateTo(dl) == IF UnpackOk(dl) THEN dl.items[2] ELSE Null
QueryDateFilter(dl) ==
    IF Truthy(dl)
    THEN IF Truthy(DateTo(dl)) THEN Between(DateFrom(dl), DateTo(dl)) ELSE AtLeast(DateFrom(dl))
    ELSE NoFilter

\* WHERE DATETIME(timestamp, 'America/Santiago') ...
ScanWhere(f, s) ==
    CASE f.kind = "none" -> TRUE
      [] f.kind = "between" -> s.scan_dttm.num >= f.date_from.date /\ s.scan_dttm.num <= f.date_to.date
      [] f.kind = "ge" -> s.scan_dttm.num >= f.date_from.date

\* pandas.read_gbq(query): the rows the filter keeps (ORDER BY timestamp DESC
\* is kept as the table's order: scansDb is held newest first)
ReadGbq(db, f) == SelectSeq(db, LAMBDA s : ScanWhere(f, s))

----------------------------------------------------------------------------
(* Reconciliation: lines 34-69 and 148-153 *)

NullOrder == [barcode |-> Null, external_id |-> Null, lo_code |-> Null,
              request_id |-> Null, claim_id |-> Null, tariff |-> Null,
              platform_status |-> Null, cargo_status |-> Null, created_at |-> Null,
              proxy_client_id |-> Null]

\* the rows of `right` whose barcode equals the scan's scanned_barcode_value
MatchesOf(scan, right) == SelectSeq(right, LAMBDA o : o.barcode = scan.scanned_barcode_value)

\* MergeRow as an inner join: a scan without a matching order gets no row
MergeRow_InnerJoin(scan, right) == SeqMap(LAMBDA o : scan @@ o, MatchesOf(scan, right))

\* MergeRow keeping one order per scan: the first match only
MergeRow_FirstMatch(scan, right) ==
    IF MatchesOf(scan, right) = <<>>
    THEN <<scan @@ NullOrder>>
    ELSE <<scan @@ Head(MatchesOf(scan, right))>>

\* one left row of pandas.merge(how="left"): one output row per matching right
\* row, in the right frame's order; a single row with null right columns if none
MergeRow(scan, right) ==
    IF MatchesOf(scan, right) = <<>>
    THEN <<scan @@ NullOrder>>
    ELSE SeqMap(LAMBDA o : scan @@ o, MatchesOf(scan, right))

\* pandas.merge(scan_frame, proxy_frame, how="left",
\*              left_on="scanned_barcode_value", right_on="barcode")
Merge(left, right) == Concat(SeqMap(LAMBDA scan : MergeRow(scan, right), left))

\* set_barcode_image
set_barcode_image(row) ==
    row @@ [scannable_qr |-> [url |-> "http://qrcoder.ru/code/?", barcode |-> row.scanned_barcode_value, tail |-> "&4&0"]]

\* float(str) for a decimal literal: [sign] digits [. digits] or [sign] . digits,
\* with at most two decimals kept (a Float holds hundredths).  Anything else
\* raises ValueError.
Digits == <<"0", "1", "2", "3", "4", "5", "6", "7", "8", "9">>
IsDigit(c) == \E i \in 1..10 : Digits[i] = c
DigitValue(c) == (CHOOSE i \in 1..10 : Digits[i] = c) - 1

RECURSIVE DigitsValue(_)
DigitsValue(s) == IF s = <<>> THEN 0
                  ELSE 10 * DigitsValue(SubSeq(s, 1, Len(s) - 1)) + DigitValue(s[Len(s)])

Unsigned(s) == IF s # <<>> /\ s[1] \in {"+", "-"} THEN Tail(s) ELSE s
DotsOf(s) == {i \in 1..Len(s) : s[i] = "."}
IntPart(s) == IF DotsOf(s) = {} THEN s ELSE SubSeq(s, 1, (CHOOSE i \in DotsOf(s) : TRUE) - 1)
FracPart(s) == IF DotsOf(s) = {} THEN <<>> ELSE SubSeq(s, (CHOOSE i \in DotsOf(s) : TRUE) + 1, Len(s))

IsFloatLiteral(s) ==
    LET body == Unsigned(s) IN
        /\ Cardinality(DotsOf(body)) <= 1
        /\ \A i \in 1..Len(body) : IsDigit(body[i]) \/ body[i] = "."
        /\ Len(IntPart(body)) + Len(FracPart(body)) >= 1
        /\ Len(FracPart(body)) <= 2

Hundredths(frac) == IF Len(frac) = 0 THEN 0
                    ELSE IF Len(frac) = 1 THEN 10 * DigitsValue(frac)
                    ELSE DigitsValue(frac)

ParseFloat(s) ==
    LET body == Unsigned(s)
        magnitude == 100 * DigitsValue(IntPart(body)) + Hundredths(FracPart(body))
    IN  IF s # <<>> /\ s[1] = "-" THEN 0 - magnitude ELSE magnitude

\* float(x) raises TypeError on None and ValueError on a str that is no number
FloatRaises(x) == IF "chars" \in DOMAIN x THEN ~IsFloatLiteral(x.chars)
                  ELSE IF "float" \in DOMAIN x THEN FALSE
                  ELSE TRUE
PyFloat(x) == IF "float" \in DOMAIN x THEN x ELSE Float(ParseFloat(x.chars))

\* normalize_coordinates
normalize_coordinates_raises(row) == FloatRaises(row.lat) \/ FloatRaises(row.lon)
normalize_coordinates(row) == [row EXCEPT !.lat = PyFloat(row.lat), !.lon = PyFloat(row.lon)]

\* normalize_tariffs testing `not row["tariff"]`, which is also true of 0
normalize_tariffs_Falsy(row) ==
    IF isna(row.tariff) \/ row.tariff = Num(0) THEN [row EXCEPT !.tariff = Str("Unknown")]
    ELSE [row EXCEPT !.tariff = Str("NDD")]

\* normalize_tariffs
normalize_tariffs(row) ==
    IF isna(row.tariff) THEN [row EXCEPT !.tariff = Str("Unknown")]
    ELSE IF row.tariff = Num(0) THEN [row EXCEPT !.tariff = Str("SDD")]
    ELSE [row EXCEPT !.tariff = Str("NDD")]

\* refactor_lo_code: "LO-" + str(row["lo_code"])
refactor_lo_code(row) ==
    IF ~isna(row.lo_code) THEN [row EXCEPT !.lo_code = [prefix |-> "LO-", code |-> row.lo_code]]
    ELSE row

\* set_status with the two tests in the other order
set_status_ClaimFirst(row) ==
    IF isna(row.claim_id) THEN row @@ [pick_status |-> Str("Picked")]
    ELSE IF isna(row.barcode) THEN row @@ [pick_status |-> Str("Missing")]
    ELSE row @@ [pick_status |-> Str("Received")]

\* set_status
set_status(row) ==
    IF isna(row.barcode) THEN row @@ [pick_status |-> Str("Missing")]
    ELSE IF isna(row.claim_id) THEN row @@ [pick_status |-> Str("Picked")]
    ELSE row @@ [pick_status |-> Str("Received")]

\* lines 149-153 for one row, when no step raises
NormalizeRow(row) ==
    set_status(refactor_lo_code(normalize_tariffs(normalize_coordinates(set_barcode_image(row)))))

\* DataFrame.apply(..., axis=1) of line 150 raises as soon as one row raises
NormalizeRaises(frame) == \E i \in 1..Len(frame) : normalize_coordinates_raises(frame[i])
Normalize(frame) == SeqMap(NormalizeRow, frame)

----------------------------------------------------------------------------
(* Report: lines 155-194 *)

\* ApplyFilter without the `if selected:` guard
ApplyFilter_NoEmptyCheck(frame, col, selected) == IsIn(frame, col, selected)

\* `if selected: frame = frame[frame[col].isin(selected)]`
ApplyFilter(frame, col, selected) == IF selected # {} THEN IsIn(frame, col, selected) ELSE frame

\* lines 173-183, in the order of the code
ApplyFilters(frame, cour, cli, tar, sta) ==
    ApplyFilter(ApplyFilter(ApplyFilter(ApplyFilter(frame, "courier_uuid", cour),
                                        "corp_client_id", cli),
                            "tariff", tar),
                "pick_status", sta)

\* CountMissing counting every record that is not Received
CountMissing_NotReceived(frame) ==
    Len(SelectSeq(frame, LAMBDA row : row.pick_status # Str("Received")))

\* len(merged_frame[merged_frame["pick_status"] == "Missing"])
CountMissing(frame) == Len(SelectSeq(frame, LAMBDA row : row.pick_status = Str("Missing")))

\* merged_frame[[...]] of lines 185-187
VisibleRow(row) == [scan_dttm |-> row.scan_dttm, created_at |-> row.created_at,
                    scanned_barcode_value |-> row.scanned_barcode_value,
                    pick_status |-> row.pick_status, tariff |-> row.tariff,
                    corp_client_id |-> row.corp_client_id, store_name |-> row.store_name,
                    courier_uuid |-> row.courier_uuid, external_id |-> row.external_id,
                    lo_code |-> row.lo_code, claim_id |-> row.claim_id,
                    scannable_qr |-> row.scannable_qr]
Visible(frame) == SeqMap(VisibleRow, frame)

----------------------------------------------------------------------------
(* The script run: one action per stage of the script *)

CacheMiss == [hit |-> FALSE]
CacheHit(v) == [hit |-> TRUE, value |-> v]

\* st.cache_data lookup of get_scan_frame by its argument
ScanEntries(key) == {e \in cacheScans : e.key = key}
ScanCached(key) == (CHOOSE e \in ScanEntries(key) : TRUE).value

Unset == [kind |-> "unset"]

\* the script's variables before its first statement
RunStart ==
    /\ pc' = "get_historical_orders"
    /\ proxy_orders' = <<>>
    /\ proxy_frame' = <<>>
    /\ query_date_filter' = Unset
    /\ scan_frame' = <<>>
    /\ merged_frame' = <<>>
    /\ couriers' = {}
    /\ clients' = {}
    /\ tariffs' = {}
    /\ filtered_statuses' = {}
    /\ scan_events' = 0
    /\ scan_errors' = 0
    /\ visible_frame' = <<>>
    /\ report_file' = <<>>
    /\ ordersQueried' = FALSE
    /\ scansQueried' = FALSE

\* lines 27-31 and 108-122: @st.cache_data get_historical_orders(query)
GetHistoricalOrders ==
    /\ pc = "get_historical_orders"
    /\ IF cacheOrders.hit
       THEN /\ proxy_orders' = cacheOrders.value
            /\ UNCHANGED <<cacheOrders, ordersQueried>>
       ELSE /\ proxy_orders' = FetchAll(ordersDb)
            /\ cacheOrders' = CacheHit(FetchAll(ordersDb))
            /\ ordersQueried' = TRUE
    /\ pc' = "proxy_frame"
    /\ UNCHANGED <<ordersDb, scansDb, cacheScans, date_limit, reloadPressed, proxy_frame,
                   query_date_filter, scan_frame, merged_frame, couriers, clients, tariffs,
                   filtered_statuses, scan_events, scan_errors, visible_frame, report_file,
                   scansQueried, prevRunReloaded>>

\* lines 124-127
ProxyFrame ==
    /\ pc = "proxy_frame"
    /\ proxy_frame' = BuildProxyFrame(proxy_orders)
    /\ pc' = "get_scan_frame"
    /\ UNCHANGED <<ordersDb, scansDb, cacheOrders, cacheScans, date_limit, reloadPressed,
                   proxy_orders, query_date_filter, scan_frame, merged_frame, couriers,
                   clients, tariffs, filtered_statuses, scan_events, scan_errors,
                   visible_frame, report_file, ordersQueried, scansQueried, prevRunReloaded>>

\* lines 72-102 and 146: @st.cache_data get_scan_frame(date_limit)
GetScanFrame ==
    /\ pc = "get_scan_frame"
    /\ IF ScanEntries(date_limit) # {}
       THEN /\ scan_frame' = ScanCached(date_limit)
            /\ UNCHANGED <<cacheScans, scansQueried, query_date_filter>>
       ELSE /\ query_date_filter' = QueryDateFilter(date_limit)
            /\ scan_frame' = ReadGbq(scansDb, QueryDateFilter(date_limit))
            /\ cacheScans' = cacheScans \cup
                   {[key |-> date_limit, value |-> ReadGbq(scansDb, QueryDateFilter(date_limit))]}
            /\ scansQueried' = TRUE
    /\ pc' = "merge"
    /\ UNCHANGED <<ordersDb, scansDb, cacheOrders, date_limit, reloadPressed, proxy_orders,
                   proxy_frame, merged_frame, couriers, clients, tariffs, filtered_statuses,
                   scan_events, scan_errors, visible_frame, report_file, ordersQueried,
                   prevRunReloaded>>

\* line 148
MergeFrames ==
    /\ pc = "merge"
    /\ merged_frame' = Merge(scan_frame, proxy_frame)
    /\ pc' = "normalize"
    /\ UNCHANGED <<ordersDb, scansDb, cacheOrders, cacheScans, date_limit, reloadPressed,
                   proxy_orders, proxy_frame, query_date_filter, scan_frame, couriers,
                   clients, tariffs, filtered_statuses, scan_events, scan_errors,
                   visible_frame, report_file, ordersQueried, scansQueried, prevRunReloaded>>

\* lines 149-153.  An exception of float() in line 150 is caught nowhere: it
\* ends the run, with line 149 done and nothing after line 150 executed.
NormalizeFrame ==
    /\ pc = "normalize"
    /\ IF NormalizeRaises(merged_frame)
       THEN /\ merged_frame' = SeqMap(set_barcode_image, merged_frame)
            /\ pc' = "aborted"
       ELSE /\ merged_frame' = Normalize(merged_frame)
            /\ pc' = "report"
    /\ UNCHANGED <<ordersDb, scansDb, cacheOrders, cacheScans, date_limit, reloadPressed,
                   proxy_orders, proxy_frame, query_date_filter, scan_frame, couriers,
                   clients, tariffs, filtered_statuses, scan_events, scan_errors,
                   visible_frame, report_file, ordersQueried, scansQueried, prevRunReloaded>>

\* lines 155-194: the multiselects return the user's selection among the
\* frame's values, the metrics are taken, the filters applied, the table shown.
\* DataFrame.apply(axis=1) on a frame without rows returns a copy of the frame
\* and adds no column, so after lines 149-153 a frame without rows has no
\* pick_status column and line 165 raises KeyError, which ends the run.
Report ==
    /\ pc = "report"
    /\ IF merged_frame = <<>>
       THEN /\ pc' = "aborted"
            /\ UNCHANGED <<merged_frame, couriers, clients, tariffs, filtered_statuses,
                           scan_events, scan_errors, visible_frame>>
       ELSE /\ \E cour \in SUBSET Unique(merged_frame, "courier_uuid"),
                  cli \in SUBSET Unique(merged_frame, "corp_client_id"),
                  tar \in SUBSET Unique(merged_frame, "tariff"),
                  sta \in SUBSET Unique(merged_frame, "pick_status") :
                    /\ couriers' = cour
                    /\ clients' = cli
                    /\ tariffs' = tar
                    /\ filtered_statuses' = sta
                    /\ scan_events' = Len(merged_frame)
                    /\ scan_errors' = CountMissing(merged_frame)
                    /\ merged_frame' = ApplyFilters(merged_frame, cour, cli, tar, sta)
                    /\ visible_frame' = Visible(ApplyFilters(merged_frame, cour, cli, tar, sta))
            /\ pc' = "reload_button"
    /\ UNCHANGED <<ordersDb, scansDb, cacheOrders, cacheScans, date_limit, reloadPressed,
                   proxy_orders, proxy_frame, query_date_filter, scan_frame, report_file,
                   ordersQueried, scansQueried, prevRunReloaded>>

\* ReloadButton clearing get_historical_orders only
ReloadButton_OrdersOnly ==
    /\ pc = "reload_button"
    /\ IF reloadPressed
       THEN cacheOrders' = CacheMiss
       ELSE UNCHANGED cacheOrders
    /\ pc' = "export"
    /\ UNCHANGED <<ordersDb, scansDb, cacheScans, date_limit, reloadPressed, proxy_orders,
                   proxy_frame, query_date_filter, scan_frame, merged_frame, couriers, clients,
                   tariffs, filtered_statuses, scan_events, scan_errors, visible_frame,
                   report_file, ordersQueried, scansQueried, prevRunReloaded>>

\* lines 196-197: st.cache_data.clear() drops every memoized result
ReloadButton ==
    /\ pc = "reload_button"
    /\ IF reloadPressed
       THEN cacheOrders' = CacheMiss /\ cacheScans' = {}
       ELSE UNCHANGED <<cacheOrders, cacheScans>>
    /\ pc' = "export"
    /\ UNCHANGED <<ordersDb, scansDb, date_limit, reloadPressed, proxy_orders, proxy_frame,
                   query_date_filter, scan_frame, merged_frame, couriers, clients, tariffs,
                   filtered_statuses, scan_events, scan_errors, visible_frame, report_file,
                   ordersQueried, scansQueried, prevRunReloaded>>

\* lines 199-209
Export ==
    /\ pc = "export"
    /\ report_file' = visible_frame
    /\ pc' = "done"
    /\ UNCHANGED <<ordersDb, scansDb, cacheOrders, cacheScans, date_limit, reloadPressed,
                   proxy_orders, proxy_frame, query_date_filter, scan_frame, merged_frame,
                   couriers, clients, tariffs, filtered_statuses, scan_events, scan_errors,
                   visible_frame, ordersQueried, scansQueried, prevRunReloaded>>

----------------------------------------------------------------------------
(* The user and the environment between and during runs *)

\* the run that is ending reached line 197 with the button pressed
ReachedClear == pc = "done" /\ reloadPressed

\* A click on "Reload data": the script is re-executed and st.button returns
\* True in that run.  The button exists only if the last run rendered it.
PressReload ==
    /\ pc = "done"
    /\ reloadPressed' = TRUE
    /\ prevRunReloaded' = ReachedClear
    /\ RunStart
    /\ UNCHANGED <<ordersDb, scansDb, cacheOrders, cacheScans, date_limit>>

\* Any other interaction that leaves the date window alone (a filter
\* selection, a browser refresh): the script is re-executed.
Rerun ==
    /\ pc \in {"done", "aborted"}
    /\ reloadPressed' = FALSE
    /\ prevRunReloaded' = ReachedClear
    /\ RunStart
    /\ UNCHANGED <<ordersDb, scansDb, cacheOrders, cacheScans, date_limit>>

\* st.date_input returns a tuple of the dates picked so far: one date while
\* the range is being picked, two once it is complete
Date(d) == [date |-> d]
Window(items) == [items |-> items]
DateInputs == {Window(<<Date(1), Date(2)>>), Window(<<Date(2)>>)}

ChangeDate ==
    /\ pc \in {"done", "aborted"}
    /\ \E d \in DateInputs \ {date_limit} : date_limit' = d
    /\ reloadPressed' = FALSE
    /\ prevRunReloaded' = ReachedClear
    /\ RunStart
    /\ UNCHANGED <<ordersDb, scansDb, cacheOrders, cacheScans>>

\* ttl=600: a memoized result is dropped once it is ten minutes old
ExpireOrders ==
    /\ cacheOrders.hit
    /\ cacheOrders' = CacheMiss
    /\ UNCHANGED <<ordersDb, scansDb, cacheScans, date_limit, reloadPressed, pc, proxy_orders,
                   proxy_frame, query_date_filter, scan_frame, merged_frame, couriers,
                   clients, tariffs, filtered_statuses, scan_events, scan_errors,
                   visible_frame, report_file, ordersQueried, scansQueried, prevRunReloaded>>

ExpireScans ==
    /\ \E e \in cacheScans : cacheScans' = cacheScans \ {e}
    /\ UNCHANGED <<ordersDb, scansDb, cacheOrders, date_limit, reloadPressed, pc, proxy_orders,
                   proxy_frame, query_date_filter, scan_frame, merged_frame, couriers,
                   clients, tariffs, filtered_statuses, scan_events, scan_errors,
                   visible_frame, report_file, ordersQueried, scansQueried, prevRunReloaded>>

----------------------------------------------------------------------------
(* Rows of the two stores *)

ScanRow(dttm, client, courier, barcode, lat, lon) ==
    [scan_dttm |-> Num(dttm), corp_client_id |-> Str(client), courier_uuid |-> Str(courier),
     scanned_barcode_value |-> Str(barcode), store_name |-> Str("store"),
     lat |-> lat, lon |-> lon]

OrderRow(barcode, external_id, lo_code, claim_id, tariff, redelivery, created) ==
    [client_order_number |-> Str(barcode), routing_order_number |-> Chars(external_id),
     market_order_id |-> lo_code, request_id |-> Str("req"), claim_id |-> claim_id,
     tariff |-> tariff, logistic_status |-> Str("CREATED"), claim_status |-> Str("new"),
     created_at |-> created, client_id |-> Str("shop"), is_redelivery |-> redelivery]

PlainId == <<"R", "1">>
RetryId == <<"R", "1", "_", "R", "E", "T", "R", "Y", "_", "2">>

GoodLat == Chars(<<"-", "3", "3", ".", "4">>)
GoodLon == Chars(<<"7", "0", ".", "6", "9">>)
BadLat == Chars(<<"a", "b", "c">>)

MaxOrders == 2
MaxScans == 2

SeqsUpTo(S, n) == UNION {[1..k -> S] : k \in 0..n}

\* the state in which the first run of a session starts, over given stores
FirstRun(orders, scans, window) ==
    /\ ordersDb = orders
    /\ scansDb = scans
    /\ cacheOrders = CacheMiss
    /\ cacheScans = {}
    /\ date_limit = window
    /\ reloadPressed = FALSE
    /\ pc = "get_historical_orders"
    /\ proxy_orders = <<>>
    /\ proxy_frame = <<>>
    /\ query_date_filter = Unset
    /\ scan_frame = <<>>
    /\ merged_frame = <<>>
    /\ couriers = {}
    /\ clients = {}
    /\ tariffs = {}
    /\ filtered_statuses = {}
    /\ scan_events = 0
    /\ scan_errors = 0
    /\ visible_frame = <<>>
    /\ report_file = <<>>
    /\ ordersQueried = FALSE
    /\ scansQueried = FALSE
    /\ prevRunReloaded = FALSE

\* line 134: value=(today, today + 1 day)
DefaultWindow == Window(<<Date(1), Date(2)>>)

----------------------------------------------------------------------------
(* SpecReconcile: one run up to the reconciled frame, over every pair of    *)
(* stores of at most MaxOrders orders and MaxScans scans.                   *)

\* (claim_id, tariff) of an order
OrderDetails == {<<Null, Null>>, <<Str("CL-1"), Num(0)>>, <<Null, Num(1)>>, <<Str("CL-1"), Null>>}

\* every plain order of two barcodes, and a redelivery of the first barcode
ReconcileOrders ==
    {OrderRow(b, PlainId, (IF b = "B1" THEN Num(42) ELSE Null), d[1], d[2], FALSE, 20230815) :
        b \in {"B1", "B2"}, d \in OrderDetails}
    \cup {OrderRow("B1", RetryId, Num(43), Str("CL-1"), Num(0), FALSE, 20230815)}

ReconcileScans ==
    {ScanRow(1, "shop", "courier", "B1", GoodLat, GoodLon),
     ScanRow(1, "shop", "courier", "B2", GoodLat, GoodLon),
     ScanRow(1, "shop", "courier", "B1", BadLat, GoodLon)}

InitReconcile ==
    \E orders \in SeqsUpTo(ReconcileOrders, MaxOrders), scans \in SeqsUpTo(ReconcileScans, MaxScans) :
        FirstRun(orders, scans, DefaultWindow)

NextReconcile == GetHistoricalOrders \/ ProxyFrame \/ GetScanFrame \/ MergeFrames \/ NormalizeFrame

SpecReconcile == InitReconcile /\ [][NextReconcile]_vars

----------------------------------------------------------------------------
(* Spec: a dashboard session.  The stores start empty and grow while the    *)
(* user re-executes the script, changes the date window and presses         *)
(* "Reload data", and while memoized results expire.                        *)

SessionOrders ==
    {OrderRow("B1", PlainId, Num(42), Str("CL-1"), Num(0), FALSE, 20230815),
     OrderRow("B2", RetryId, Null, Null, Num(1), FALSE, 20230816)}

SessionScans ==
    {ScanRow(1, "shop", "courier", "B1", GoodLat, GoodLon),
     ScanRow(2, "shop", "courier", "B2", BadLat, GoodLon)}

MaxSessionOrders == 1
MaxSessionScans == 2

\* a new scan event is exported to the scan table (newest first)
NewScan ==
    /\ Len(scansDb) < MaxSessionScans
    /\ \E s \in SessionScans : scansDb' = <<s>> \o scansDb
    /\ UNCHANGED <<ordersDb, cacheOrders, cacheScans, date_limit, reloadPressed, pc,
                   proxy_orders, proxy_frame, query_date_filter, scan_frame, merged_frame,
                   couriers, clients, tariffs, filtered_statuses, scan_events, scan_errors,
                   visible_frame, report_file, ordersQueried, scansQueried, prevRunReloaded>>

\* a new order is created in the orders table
NewOrder ==
    /\ Len(ordersDb) < MaxSessionOrders
    /\ \E o \in SessionOrders : ordersDb' = Append(ordersDb, o)
    /\ UNCHANGED <<scansDb, cacheOrders, cacheScans, date_limit, reloadPressed, pc,
                   proxy_orders, proxy_frame, query_date_filter, scan_frame, merged_frame,
                   couriers, clients, tariffs, filtered_statuses, scan_events, scan_errors,
                   visible_frame, report_file, ordersQueried, scansQueried, prevRunReloaded>>

Init == FirstRun(<<>>, <<>>, DefaultWindow)

NextRun == NextReconcile \/ Report \/ ReloadButton \/ Export

Next ==
    \/ NextRun
    \/ PressReload
    \/ Rerun
    \/ ChangeDate
    \/ ExpireOrders
    \/ ExpireScans
    \/ NewScan
    \/ NewOrder

Spec == Init /\ [][Next]_vars

----------------------------------------------------------------------------
(* SpecReport: one run up to the rendered table, over a fixed orders table   *)
(* and every scan table of at most MaxReportScans scans, with every         *)
(* selection of the four filters.                                           *)

\* B1 is the barcode of two orders; the orders of B2 are not fetched
ReportOrderTable ==
    <<OrderRow("B1", PlainId, Num(42), Str("CL-1"), Num(0), FALSE, 20230815),
      OrderRow("B1", PlainId, Null, Null, Num(1), FALSE, 20230831),
      OrderRow("B2", PlainId, Num(7), Str("CL-2"), Num(0), TRUE, 20230815),
      OrderRow("B2", PlainId, Num(8), Null, Null, FALSE, 20230901)>>

ReportScans ==
    {ScanRow(1, "shopA", "k1", "B1", GoodLat, GoodLon),
     ScanRow(1, "shopB", "k2", "B1", GoodLat, GoodLon),
     ScanRow(1, "shopA", "k2", "B2", GoodLat, GoodLon),
     ScanRow(1, "shopB", "k1", "B2", GoodLat, GoodLon),
     ScanRow(1, "shopA", "k1", "B2", GoodLat, Null)}

MaxReportScans == 2

InitReport ==
    \E scans \in SeqsUpTo(ReportScans, MaxReportScans) :
        FirstRun(ReportOrderTable, scans, DefaultWindow)

NextReport == NextReconcile \/ Report

SpecReport == InitReport /\ [][NextReport]_vars

----------------------------------------------------------------------------
(* SpecWindow: get_scan_frame on every date window of at most MaxWindowLen  *)
(* items, over a scan table with one scan on each day.                      *)

WindowDays == {1, 2, 3}
MaxWindowLen == 3

\* a window's first item is a date, every other item a date or None
WindowItems(k) ==
    {w \in [1..k -> {Null} \cup {Date(d) : d \in WindowDays}] : k >= 1 => w[1] # Null}
Windows == {Null} \cup {Window(w) : w \in UNION {WindowItems(k) : k \in 0..MaxWindowLen}}

WindowScanTable ==
    <<ScanRow(3, "shop", "courier", "B1", GoodLat, GoodLon),
      ScanRow(2, "shop", "courier", "B2", GoodLat, GoodLon),
      ScanRow(1, "shop", "courier", "B1", GoodLat, GoodLon)>>

InitWindow == \E w \in Windows : FirstRun(<<>>, WindowScanTable, w)

NextWindow == GetHistoricalOrders \/ ProxyFrame \/ GetScanFrame

SpecWindow == InitWindow /\ [][NextWindow]_vars

----------------------------------------------------------------------------
(* Properties of the reconciled frame, checked under SpecReconcile.         *)
(* S is scan_frame, O is proxy_frame; merged_frame is the frame of line 148 *)
(* while pc = "normalize" and the frame of line 153 while pc = "report".    *)

ScanColumns == {"scan_dttm", "corp_client_id", "courier_uuid", "scanned_barcode_value",
                "store_name", "lat", "lon"}
OrderColumns == {"barcode", "external_id", "lo_code", "request_id", "claim_id", "tariff",
                 "platform_status", "cargo_status", "created_at", "proxy_client_id"}

\* the positions of the orders of O whose barcode is the scan's code
MatchingOrders(scan) ==
    {j \in 1..Len(proxy_frame) : proxy_frame[j].barcode = scan.scanned_barcode_value}

\* the number of records the claim gives scan i: k if k >= 1 orders match, else 1
RecordsFor(i) == IF MatchingOrders(scan_frame[i]) = {} THEN 1
                 ELSE Cardinality(MatchingOrders(scan_frame[i]))

RECURSIVE RecordsBefore(_)
RecordsBefore(i) == IF i <= 1 THEN 0 ELSE RecordsBefore(i - 1) + RecordsFor(i - 1)

\* the positions in the output of the records of scan i
RecordsOf(i) == (RecordsBefore(i) + 1)..(RecordsBefore(i) + RecordsFor(i))

\* the scan and the order (0 if none) that record n of the output comes from:
\* the records of a scan follow its matching orders in the order of O
ScanOf(n) == CHOOSE i \in 1..Len(scan_frame) : n \in RecordsOf(i)
NthOf(M, r) == CHOOSE j \in M : Cardinality({m \in M : m < j}) = r - 1
OrderOf(n) == IF MatchingOrders(scan_frame[ScanOf(n)]) = {} THEN 0
              ELSE NthOf(MatchingOrders(scan_frame[ScanOf(n)]), n - RecordsBefore(ScanOf(n)))
RawTariff(n) == IF OrderOf(n) = 0 THEN Null ELSE proxy_frame[OrderOf(n)].tariff
RawClaim(n) == IF OrderOf(n) = 0 THEN Null ELSE proxy_frame[OrderOf(n)].claim_id

Cardinalities ==
    /\ Len(merged_frame) >= Len(scan_frame)
    /\ Len(merged_frame) = RecordsBefore(Len(scan_frame) + 1)

UnmatchedAreNull(columns) ==
    \A i \in 1..Len(scan_frame) :
        MatchingOrders(scan_frame[i]) = {} =>
            \A n \in RecordsOf(i) : \A c \in columns : merged_frame[n][c] = Null

UnmatchedAreUnknown ==
    \A i \in 1..Len(scan_frame) :
        MatchingOrders(scan_frame[i]) = {} =>
            \A n \in RecordsOf(i) : merged_frame[n].tariff = Str("Unknown")

MatchedCarryTheirOrder ==
    \A i \in 1..Len(scan_frame) :
        MatchingOrders(scan_frame[i]) # {} =>
            \A n \in RecordsOf(i) :
                /\ merged_frame[n].barcode = proxy_frame[OrderOf(n)].barcode
                /\ merged_frame[n].external_id = proxy_frame[OrderOf(n)].external_id
                /\ merged_frame[n].claim_id = proxy_frame[OrderOf(n)].claim_id

ScanFieldsKept(columns) ==
    \A i \in 1..Len(scan_frame) :
        \A n \in RecordsOf(i) : \A c \in columns : merged_frame[n][c] = scan_frame[i][c]

CoordinatesAreFloats ==
    \A i \in 1..Len(scan_frame) :
        \A n \in RecordsOf(i) :
            /\ merged_frame[n].lat = Float(ParseFloat(scan_frame[i].lat.chars))
            /\ merged_frame[n].lon = Float(ParseFloat(scan_frame[i].lon.chars))

\* C1 as stated: the reconciled output has a record for every scan, k records
\* for a scan with k >= 1 matching orders, one record with null order fields
\* for a scan with none, and every scan-derived field of every record equals
\* the field of the scan the record comes from.
C1_AsStated ==
    pc = "report" =>
        /\ Cardinalities
        /\ UnmatchedAreNull(OrderColumns)
        /\ ScanFieldsKept(ScanColumns)

\* C1, amended: the statement holds of the left merge of line 148.  The frame
\* of line 153 has the same records in the same number, with every
\* scan-derived field but lat and lon equal to the scan's; lat and lon are the
\* floats parsed from the scan's strings, and the tariff column of an
\* unmatched record holds the label Unknown, its other order fields null.
C1_LeftMerge ==
    /\ pc = "normalize" =>
        /\ Cardinalities
        /\ UnmatchedAreNull(OrderColumns)
        /\ MatchedCarryTheirOrder
        /\ ScanFieldsKept(ScanColumns)
    /\ pc = "report" =>
        /\ Cardinalities
        /\ UnmatchedAreNull(OrderColumns \ {"tariff"})
        /\ UnmatchedAreUnknown
        /\ MatchedCarryTheirOrder
        /\ ScanFieldsKept(ScanColumns \ {"lat", "lon"})
        /\ CoordinatesAreFloats

\* a reconciled frame with a scan that two orders match and a scan that none matches
C1_Witness ==
    /\ pc = "report"
    /\ Len(scan_frame) = 2
    /\ Cardinality(MatchingOrders(scan_frame[1])) = 2
    /\ MatchingOrders(scan_frame[2]) = {}
    /\ Len(merged_frame) = 3

\* C9 as stated: every scan appears exactly once, so the reconciled frame has
\* |S| records, also when orders share a barcode; unmatched scans carry null
\* order fields.
C9_AsStated ==
    pc \in {"normalize", "report"} =>
        /\ Len(merged_frame) = Len(scan_frame)
        /\ UnmatchedAreNull(OrderColumns \ {"tariff"})

\* C9, amended: every scan appears at least once, and the frame has exactly
\* |S| records if and only if no scan's code is the barcode of two or more
\* orders; unmatched scans carry null order fields.
C9_ExactlyOnceIffNoCollision ==
    pc \in {"normalize", "report"} =>
        /\ Len(merged_frame) >= Len(scan_frame)
        /\ (Len(merged_frame) = Len(scan_frame)) <=>
               (\A i \in 1..Len(scan_frame) : Cardinality(MatchingOrders(scan_frame[i])) <= 1)
        /\ UnmatchedAreNull(OrderColumns \ {"tariff"})

\* two scans, one matched by exactly one order and one by none: two records
C9_Witness ==
    /\ pc = "report"
    /\ Len(scan_frame) = 2
    /\ Len(proxy_frame) >= 1
    /\ Cardinality(MatchingOrders(scan_frame[1])) = 1
    /\ MatchingOrders(scan_frame[2]) = {}
    /\ Len(merged_frame) = 2

PickStatuses == {Str("Missing"), Str("Picked"), Str("Received")}
TariffLabels == {Str("Unknown"), Str("SDD"), Str("NDD")}

\* C2: every reconciled record has a pick_status among Missing, Picked and
\* Received, fixed by whether an order matched its scan and whether that
\* order has a claim_id: no order (barcode null) -> Missing, an order without
\* claim_id -> Picked, an order with claim_id -> Received.
C2_StatusDerivation ==
    pc = "report" =>
        /\ Len(merged_frame) = RecordsBefore(Len(scan_frame) + 1)
        /\ \A n \in 1..Len(merged_frame) :
            /\ merged_frame[n].pick_status \in PickStatuses
            /\ (merged_frame[n].barcode = Null) <=> (OrderOf(n) = 0)
            /\ merged_frame[n].pick_status =
                   IF OrderOf(n) = 0 THEN Str("Missing")
                   ELSE IF RawClaim(n) = Null THEN Str("Picked")
                   ELSE Str("Received")

\* a frame in which all three statuses occur
C2_Witness ==
    /\ pc = "report"
    /\ {merged_frame[n].pick_status : n \in 1..Len(merged_frame)} = PickStatuses

\* C7: every reconciled record has a tariff label among Unknown, SDD and NDD,
\* fixed by the raw tariff of its order: null -> Unknown, 0 -> SDD, any other
\* value -> NDD; the record of an unmatched scan has the label Unknown.
C7_TariffLabel ==
    pc = "report" =>
        /\ Len(merged_frame) = RecordsBefore(Len(scan_frame) + 1)
        /\ \A n \in 1..Len(merged_frame) :
            /\ merged_frame[n].tariff \in TariffLabels
            /\ merged_frame[n].tariff =
                   IF RawTariff(n) = Null THEN Str("Unknown")
                   ELSE IF RawTariff(n) = Num(0) THEN Str("SDD")
                   ELSE Str("NDD")
            /\ OrderOf(n) = 0 => merged_frame[n].tariff = Str("Unknown")

\* a frame with an unmatched scan, an order of tariff 0 and an order of tariff 1
C7_Witness ==
    /\ pc = "report"
    /\ \E n \in 1..Len(merged_frame) : OrderOf(n) = 0
    /\ \E n \in 1..Len(merged_frame) : RawTariff(n) = Num(0) /\ merged_frame[n].tariff = Str("SDD")
    /\ \E n \in 1..Len(merged_frame) : RawTariff(n) = Num(1) /\ merged_frame[n].tariff = Str("NDD")

\* the fetched orders (tuples of proxy_orders) whose barcode is the code
FetchedFor(code) == {k \in 1..Len(proxy_orders) : proxy_orders[k][1] = code}
OnlyRedeliveries(code) ==
    /\ FetchedFor(code) # {}
    /\ \A k \in FetchedFor(code) : StrContains(proxy_orders[k][2].chars, RETRY_MARKER)

\* C3: no record of the reconciled frame carries the fields of a fetched order
\* whose external_id contains "_RETRY_", and a scan whose only matching
\* fetched orders are such orders is reported as unmatched.
C3_RedeliveryExclusion ==
    pc \in {"normalize", "report"} =>
        \A n \in 1..Len(merged_frame) :
            /\ merged_frame[n].external_id # Null =>
                   ~StrContains(merged_frame[n].external_id.chars, RETRY_MARKER)
            /\ OnlyRedeliveries(merged_frame[n].scanned_barcode_value) =>
                /\ \A c \in OrderColumns \ {"tariff"} : merged_frame[n][c] = Null
                /\ pc = "report" => merged_frame[n].pick_status = Str("Missing")

\* a reconciled scan whose code is the barcode of redelivery orders only,
\* next to one that a plain order matches
C3_Witness ==
    /\ pc = "report"
    /\ \E n \in 1..Len(merged_frame) : OnlyRedeliveries(merged_frame[n].scanned_barcode_value)
    /\ \E n \in 1..Len(merged_frame) : merged_frame[n].external_id # Null

\* scan i of S has coordinates that float() accepts
WellFormed(i) == ~FloatRaises(scan_frame[i].lat) /\ ~FloatRaises(scan_frame[i].lon)

\* C5: a record whose lat or lon cannot be coerced does not abort the
\* reconciliation: once line 150 has run, the frame is there and holds the
\* reconciled records of every scan with well-formed coordinates.
C5_MalformedIsContained ==
    pc \in {"report", "aborted"} =>
        /\ pc = "report"
        /\ \A i \in 1..Len(scan_frame) :
               WellFormed(i) =>
                   \E n \in 1..Len(merged_frame) :
                       /\ merged_frame[n].scanned_barcode_value = scan_frame[i].scanned_barcode_value
                       /\ "pick_status" \in DOMAIN merged_frame[n]

----------------------------------------------------------------------------
(* Properties of the report, checked under SpecReport *)

\* the run has executed lines 155-194
Reported == pc \in {"reload_button", "export", "done"}

\* the reconciled frame of line 153 of this run, before any filter
Reconciled == Normalize(Merge(scan_frame, proxy_frame))

FilterColumns == {"courier_uuid", "corp_client_id", "tariff", "pick_status"}

\* the inclusion set the user selected for a column
Selected(col) ==
    CASE col = "courier_uuid" -> couriers
      [] col = "corp_client_id" -> clients
      [] col = "tariff" -> tariffs
      [] col = "pick_status" -> filtered_statuses

\* the conjunction of the four filters
Passes(row) == \A col \in FilterColumns : Selected(col) = {} \/ row[col] \in Selected(col)

\* the 24 orders in which the four filters can be applied
FilterOrders == {p \in [1..4 -> FilterColumns] : \A i, j \in 1..4 : p[i] = p[j] => i = j}

RECURSIVE ApplyInOrder(_, _)
ApplyInOrder(frame, p) ==
    IF p = <<>> THEN frame
    ELSE ApplyInOrder(ApplyFilter(frame, Head(p), Selected(Head(p))), Tail(p))

\* C4: the filtered frame is exactly the reconciled records that, for every
\* non-empty inclusion set, have the column's value in the set (an empty set
\* constrains nothing), and applying the four filters one after another in
\* any order gives that same frame.
C4_FiltersAreAConjunction ==
    Reported =>
        LET reconciled == Reconciled IN
            /\ merged_frame = SelectSeq(reconciled, Passes)
            /\ \A p \in FilterOrders : ApplyInOrder(reconciled, p) = merged_frame

\* two non-empty sets and an empty one that together drop some records and keep some
C4_Witness ==
    /\ Reported
    /\ couriers # {}
    /\ filtered_statuses # {}
    /\ clients = {}
    /\ Len(merged_frame) >= 1
    /\ Len(merged_frame) < Len(Reconciled)

MissingIn(frame) == Cardinality({n \in 1..Len(frame) : frame[n].pick_status = Str("Missing")})

\* C8 as stated: the reported total is the number of records of the filtered
\* frame, and the reported error count the number of those that are Missing.
C8_AsStated ==
    Reported =>
        /\ scan_events = Len(merged_frame)
        /\ scan_errors = MissingIn(merged_frame)

\* C8, amended: the summary is taken before the filters are applied: for every
\* choice of filter sets the reported total is the number of records of the
\* unfiltered reconciled frame and the reported error count the number of
\* those that are Missing, so neither is below the filtered frame's count.
C8_MetricsOfUnfilteredFrame ==
    Reported =>
        /\ scan_events = Len(Reconciled)
        /\ scan_errors = MissingIn(Reconciled)
        /\ scan_events >= Len(merged_frame)
        /\ scan_errors >= MissingIn(merged_frame)

\* a report whose filters drop records, a Missing one among them
C8_Witness ==
    /\ Reported
    /\ filtered_statuses # {}
    /\ Len(merged_frame) < scan_events
    /\ MissingIn(merged_frame) < scan_errors

----------------------------------------------------------------------------
(* Property of get_scan_frame, checked under SpecWindow *)

\* the filter the claim gives a window
ClaimedFilter(w) ==
    IF w = Null THEN NoFilter
    ELSE IF Len(w.items) = 0 THEN NoFilter
    ELSE IF Len(w.items) = 2 /\ w.items[2] # Null THEN Between(w.items[1], w.items[2])
    ELSE AtLeast(w.items[1])

\* the scans the claimed filter keeps: inclusive on both sides
Kept(f, scan) ==
    /\ f.kind # "none" => scan.scan_dttm.num >= f.date_from.date
    /\ f.kind = "between" => scan.scan_dttm.num <= f.date_to.date

----------------------------------------------------------------------------
(* Property of the memoization, checked under Spec *)

CacheEmpty == cacheOrders = CacheMiss /\ cacheScans = {}

\* a step that executes line 108, and one that executes line 146
OrdersCall == pc = "get_historical_orders" /\ pc' = "proxy_frame"
ScansCall == pc = "get_scan_frame" /\ pc' = "merge"

C10_States ==
    \* the button is evaluated after both calls and after the table is rendered
    /\ pc = "reload_button" =>
        /\ scan_events = Len(Reconciled)
        /\ visible_frame = Visible(merged_frame)
    \* the cache is empty at the end of the run in which Reload is pressed
    /\ (reloadPressed /\ pc \in {"export", "done"}) => CacheEmpty
    \* the run after it fetches both sources from the stores
    /\ (prevRunReloaded /\ pc # "get_historical_orders") => ordersQueried
    /\ (prevRunReloaded /\ pc \notin {"get_historical_orders", "proxy_frame", "get_scan_frame"}) =>
           scansQueried

C10_Steps ==
    \* a memoized result that is present is the one the run uses, Reload
    \* pressed or not, and the store is not queried
    /\ (OrdersCall /\ cacheOrders.hit) =>
           /\ proxy_orders' = cacheOrders.value
           /\ ~ordersQueried'
    /\ (ScansCall /\ ScanEntries(date_limit) # {}) =>
           /\ scan_frame' = ScanCached(date_limit)
           /\ ~scansQueried'
    \* a memoized result goes only by expiry or by line 197, and never changes
    /\ (cacheOrders.hit /\ cacheOrders' # cacheOrders) =>
           ExpireOrders \/ (pc = "reload_button" /\ reloadPressed)
    /\ (cacheScans \ cacheScans' # {}) =>
           ExpireScans \/ (pc = "reload_button" /\ reloadPressed)

\* C10: in a run, both fetches and the rendering come before the Reload
\* button is evaluated; the run in which Reload is pressed uses the memoized
\* results that are present and ends with an empty cache; the next run
\* fetches both sources from the stores; and without Reload or expiry a
\* memoized result stays and is used without querying the store.
C10_ReloadOrdering == [](C10_States) /\ [][C10_Steps]_vars

\* the end of a run in which Reload was pressed, built from memoized orders
\* that are older than the orders table, with the cache now empty
C10_Witness ==
    /\ pc = "done"
    /\ reloadPressed
    /\ ~ordersQueried
    /\ ~scansQueried
    /\ CacheEmpty
    /\ proxy_orders # FetchAll(ordersDb)

====
